---- MODULE Spec2Model ----
(***************************************************************************)
(* GhostBiz: extraction of business records from OpenStreetMap features    *)
(* (osm_extractor.py), optional verification of each record against Google *)
(* Places (google_checker.py) and the resumable CSV checkpoint kept by      *)
(* main (main.py).                                                          *)
(***************************************************************************)
EXTENDS Naturals, Sequences, FiniteSets, TLC

\* ------------------------------------------------------------------ bounds
\* Largest number of features the provider returns.
MaxFeatures == 2
\* Number of consecutive runs of main against the same output file.
MaxRuns == 2
\* Largest number of tagged features normalised in one frame.
MaxTagged == 1

\* ------------------------------------------------------- Python/pandas values
\* A value is a tagged text: the tag is the Python type, the text its repr.
None == [t |-> "none", v |-> ""]
NaN == [t |-> "nan", v |-> ""]
Str(s) == [t |-> "str", v |-> s]
Int(s) == [t |-> "int", v |-> s]
Float(s) == [t |-> "float", v |-> s]
Bool(b) == [t |-> "bool", v |-> IF b THEN "True" ELSE "False"]

\* pd.notna / pd.isna: None and NaN are the missing values.
notna(x) == x.t \notin {"none", "nan"}

StartsWith(s, p) == Len(s) >= Len(p) /\ SubSeq(s, 1, Len(p)) = p

\* ------------------------------------------------------------ config.py
GOOGLE_API_KEY_PLACEHOLDER == "Replace with your actual API key"
\* The key left empty in config.py.
EmptyKey == ""
ApiKeys == {GOOGLE_API_KEY_PLACEHOLDER, EmptyKey, "AIza-valid-key"}
\* Seconds between API calls.
API_DELAY == 1

\* A tag filter maps a tag to True (any value) or to the list of accepted values.
AnyValue == [any |-> TRUE, values |-> {}]
Only(values) == [any |-> FALSE, values |-> values]

DEFAULT_TAGS ==
  [shop |-> AnyValue,
   amenity |-> Only({"restaurant", "cafe", "bar", "pub", "fast_food", "pharmacy", "bank"}),
   tourism |-> Only({"hotel", "hostel", "guest_house"}),
   craft |-> AnyValue,
   office |-> AnyValue]

\* -------------------------------------------------------- osm_extractor.py
\* A raw feature is a row of the provider's GeoDataFrame: a function from
\* column names to values, NaN where the feature does not carry the tag.
\* lat/lon stand for the centroid of the feature's geometry.

\* _extract_contact_info, for one row: the first field of the list that is a
\* column of the frame and not null in the row, as str(); None otherwise.
RECURSIVE _extract_contact_info(_, _)
_extract_contact_info(row, field_names) ==
  IF field_names = <<>> THEN None
  ELSE LET field == Head(field_names)
       IN IF field \in DOMAIN row /\ notna(row[field])
          THEN Str(row[field].v)
          ELSE _extract_contact_info(row, Tail(field_names))

\* str.replace and str.title on the ASCII texts of the tags.
LowerCase == "abcdefghijklmnopqrstuvwxyz"
UpperCase == "ABCDEFGHIJKLMNOPQRSTUVWXYZ"
Pos(c, alphabet) ==
  LET hits == {k \in 1..Len(alphabet) : SubSeq(alphabet, k, k) = c}
  IN IF hits = {} THEN 0 ELSE CHOOSE k \in hits : TRUE
IsCased(c) == Pos(c, LowerCase) > 0 \/ Pos(c, UpperCase) > 0
upper(c) ==
  IF Pos(c, LowerCase) > 0
  THEN SubSeq(UpperCase, Pos(c, LowerCase), Pos(c, LowerCase)) ELSE c
lower(c) ==
  IF Pos(c, UpperCase) > 0
  THEN SubSeq(LowerCase, Pos(c, UpperCase), Pos(c, UpperCase)) ELSE c

\* s.replace(old, new) for one-character old and new.
RECURSIVE replace(_, _, _)
replace(s, old, new) ==
  IF Len(s) = 0 THEN ""
  ELSE (IF SubSeq(s, 1, 1) = old THEN new ELSE SubSeq(s, 1, 1))
       \o replace(SubSeq(s, 2, Len(s)), old, new)

\* s.title(): a cased character is upper-cased when it follows an uncased one
\* (or starts the text) and lower-cased when it follows a cased one.
RECURSIVE TitleFrom(_, _, _)
TitleFrom(s, k, afterCased) ==
  IF k > Len(s) THEN ""
  ELSE LET c == SubSeq(s, k, k)
       IN (IF afterCased THEN lower(c) ELSE upper(c)) \o TitleFrom(s, k + 1, IsCased(c))
title(s) == TitleFrom(s, 1, FALSE)

\* _determine_comprehensive_business_type: tag and category, in priority order.
type_mapping ==
  << <<"shop", "Shop">>, <<"amenity", "Service">>, <<"tourism", "Tourism">>,
     <<"office", "Office">>, <<"craft", "Craft">>, <<"leisure", "Recreation">> >>

\* The inner loop: the first tag of the mapping that is a column and not null
\* in the row decides; "Unknown" when the loop ends without one.
RECURSIVE ClassifyBy(_, _)
ClassifyBy(row, mapping) ==
  IF mapping = <<>> THEN Str("Unknown")
  ELSE LET osm_tag == Head(mapping)[1]
           category == Head(mapping)[2]
       IN IF osm_tag \in DOMAIN row /\ notna(row[osm_tag])
          THEN Str(category \o ": " \o title(replace(row[osm_tag].v, "_", " ")))
          ELSE ClassifyBy(row, Tail(mapping))

\* Mutant: amenity is looked at before shop.
_determine_comprehensive_business_type_AmenityFirst(row) ==
  ClassifyBy(row, <<type_mapping[2], type_mapping[1]>> \o SubSeq(type_mapping, 3, 6))

\* _determine_comprehensive_business_type, for one row.
_determine_comprehensive_business_type(row) == ClassifyBy(row, type_mapping)

\* _get_primary_osm_tag, for one row: the first tag of the list that is a
\* column and not null in the row; "unknown" without one.
RECURSIVE PrimaryOf(_, _)
PrimaryOf(row, order) ==
  IF order = <<>> THEN Str("unknown")
  ELSE IF Head(order) \in DOMAIN row /\ notna(row[Head(order)]) THEN Str(Head(order))
  ELSE PrimaryOf(row, Tail(order))

_get_primary_osm_tag(row) ==
  PrimaryOf(row, <<"shop", "amenity", "tourism", "office", "craft", "leisure">>)

\* ', '.join(parts)
RECURSIVE Join(_)
Join(parts) ==
  IF parts = <<>> THEN ""
  ELSE IF Len(parts) = 1 THEN parts[1]
  ELSE parts[1] \o ", " \o Join(Tail(parts))

\* _build_comprehensive_address: the structured fields, in the order of the list.
address_components ==
  <<"addr:housenumber", "addr:housename", "addr:street", "addr:place",
    "addr:postcode", "addr:city", "addr:suburb", "addr:district",
    "addr:state", "addr:country">>
fallback_fields == <<"addr:full", "address">>

\* The loop over address_components: str() of every field that is a column and
\* not null in the row, appended in list order.
RECURSIVE CollectParts(_, _)
CollectParts(row, fields) ==
  IF fields = <<>> THEN <<>>
  ELSE LET field == Head(fields)
           rest == CollectParts(row, Tail(fields))
       IN IF field \in DOMAIN row /\ notna(row[field])
          THEN <<row[field].v>> \o rest
          ELSE rest

\* The loop over the fallback fields: the first one present, then break.
RECURSIVE FirstPart(_, _)
FirstPart(row, fields) ==
  IF fields = <<>> THEN <<>>
  ELSE LET field == Head(fields)
       IN IF field \in DOMAIN row /\ notna(row[field])
          THEN <<row[field].v>>
          ELSE FirstPart(row, Tail(fields))

\* Mutant: the full-address field wins over the structured fields.
_build_comprehensive_address_FallbackFirst(row) ==
  LET full == FirstPart(row, fallback_fields)
      address_parts == IF full = <<>> THEN CollectParts(row, address_components) ELSE full
  IN IF address_parts = <<>> THEN None ELSE Str(Join(address_parts))

\* _build_comprehensive_address, for one row.
_build_comprehensive_address(row) ==
  LET parts == CollectParts(row, address_components)
      address_parts == IF parts = <<>> THEN FirstPart(row, fallback_fields) ELSE parts
  IN IF address_parts = <<>> THEN None ELSE Str(Join(address_parts))

\* Mutant: only "http://" counts as a scheme.
CleanWebsite_HttpOnly(x) ==
  IF x.t = "str" /\ x.v # "" /\ ~StartsWith(x.v, "http://")
  THEN Str("http://" \o x.v)
  ELSE x

\* The website lambda of _clean_comprehensive_dataframe.
CleanWebsite(x) ==
  IF x.t = "str" /\ x.v # "" /\ ~StartsWith(x.v, "http://") /\ ~StartsWith(x.v, "https://")
  THEN Str("http://" \o x.v)
  ELSE x

\* df.replace(['', 'nan', 'None'], None) followed by df.where(pd.notna(df), None),
\* for one cell of an object column.
ReplaceEmpty(x) ==
  IF x.t = "str" /\ x.v \in {"", "nan", "None"} THEN None
  ELSE IF x.t = "nan" THEN None
  ELSE x

\* _clean_comprehensive_dataframe, for one row of the frame.
_clean_comprehensive_dataframe(r) ==
  [name |-> ReplaceEmpty(r.name),
   website |-> ReplaceEmpty(CleanWebsite(r.website)),
   lat |-> r.lat,
   lon |-> r.lon]

\* The name filter: gdf = gdf[gdf['name'].notnull()].
NameFilter(f) == notna(f["name"])

\* One row of the data dictionary built from the filtered frame.
DataRow(f) ==
  [name |-> f["name"],
   website |-> _extract_contact_info(f, <<"website", "url", "contact:website">>),
   lat |-> f["lat"],
   lon |-> f["lon"]]


\* The tags extract_osm_businesses uses when it is given none.
ComprehensiveTags ==
  [shop |-> AnyValue,
   amenity |-> Only({"restaurant", "cafe", "bar", "pub", "fast_food", "ice_cream",
                     "food_court", "biergarten", "bank", "pharmacy", "hospital",
                     "clinic", "dentist", "veterinary", "post_office", "fuel",
                     "car_wash", "car_rental", "taxi"}),
   tourism |-> Only({"hotel", "hostel", "guest_house", "motel", "apartment"}),
   office |-> AnyValue,
   craft |-> AnyValue,
   leisure |-> Only({"fitness_centre", "spa", "sauna", "bowling_alley", "cinema",
                     "theatre", "nightclub"})]

\* The provider's answer to a tag filter: the features that carry one of the
\* tags of the filter with an accepted value, in the provider's order.
Matches(f, filter) ==
  \E key \in DOMAIN filter :
     /\ key \in DOMAIN f
     /\ notna(f[key])
     /\ (filter[key].any \/ f[key].v \in filter[key].values)
features_from_place(features, filter) ==
  SelectSeq(features, LAMBDA f : Matches(f, filter))

\* extract_osm_businesses: the provider's frame for the tags (or its failure),
\* the name filter, the data dictionary, the cleaning pass; an empty frame on
\* failure.
extract_osm_businesses(features, tagsGiven, providerRaises) ==
  IF providerRaises THEN <<>>
  ELSE LET filter == IF tagsGiven = None THEN ComprehensiveTags ELSE tagsGiven
           named == SelectSeq(features_from_place(features, filter), NameFilter)
       IN IF Len(named) = 0 THEN <<>>
          ELSE [k \in 1..Len(named) |-> _clean_comprehensive_dataframe(DataRow(named[k]))]

\* ------------------------------------------------------- google_checker.py
\* What requests.get(...).json() yields: the call or the decoding raises, or a
\* payload that may carry "error_message" and a ranked list "results".
MatchFull == [name |-> Str("Cafe G"), website |-> Str("https://g.example"),
              business_status |-> Str("OPERATIONAL")]
MatchBare == [name |-> Str("Cafe G")]
Responses ==
  {[kind |-> "raise", error_message |-> FALSE, results |-> <<>>],
   [kind |-> "json", error_message |-> TRUE, results |-> <<>>],
   [kind |-> "json", error_message |-> FALSE, results |-> <<>>],
   [kind |-> "json", error_message |-> FALSE, results |-> <<MatchFull>>],
   [kind |-> "json", error_message |-> FALSE, results |-> <<MatchBare, MatchFull>>]}

\* What a request made with the key can come back with: without a key the
\* service denies the request (an error_message payload) or the call raises.
ResponsesFor(key) ==
  IF key = EmptyKey
  THEN {resp \in Responses : resp.kind = "raise" \/ resp.error_message}
  ELSE Responses

\* dict.get(key): the value, or None when the key is absent.
Get(d, key) == IF key \in DOMAIN d THEN d[key] ELSE None

\* The dictionary returned when data.get("results") is empty.
NotFoundResult ==
  [exc |-> FALSE, found |-> FALSE, google_name |-> None, website |-> None,
   status |-> None]

\* The dictionary built from the top-ranked result.
FoundResult(top_result) ==
  [exc |-> FALSE, found |-> TRUE,
   google_name |-> Get(top_result, "name"),
   website |-> Get(top_result, "website"),
   status |-> Get(top_result, "business_status")]

\* Mutant: the payload's error_message is not looked at.
check_google_business_NoErrorCheck(resp) ==
  IF resp.kind = "raise"
  THEN [exc |-> TRUE, found |-> FALSE, google_name |-> None, website |-> None,
        status |-> None]
  ELSE IF resp.results = <<>> THEN NotFoundResult
  ELSE FoundResult(resp.results[1])

\* check_google_business on one response; exc means the function raised.
check_google_business(resp) ==
  IF resp.kind = "raise" \/ resp.error_message
  THEN [exc |-> TRUE, found |-> FALSE, google_name |-> None, website |-> None,
        status |-> None]
  ELSE IF resp.results = <<>> THEN NotFoundResult
  ELSE FoundResult(resp.results[1])

\* ------------------------------------------------- the output file (CSV text)
\* Columns of the checkpoint written in checker mode, and of the table
\* written in export mode.
CkptCols == {"osm_name", "lat", "lon", "google_name", "website", "status", "not_found"}
OsmCols == {"name", "website", "lat", "lon"}

\* to_csv, one cell: missing values are written as the empty text.
CellText(x) == IF notna(x) THEN x.v ELSE ""

\* DataFrame.to_csv(index=False): one row of cell texts per row of the frame.
RowText(r) == [c \in DOMAIN r |-> CellText(r[c])]
to_csv(df) == [k \in 1..Len(df) |-> RowText(df[k])]

\* The texts read_csv takes for a missing value (pandas' default na_values).
NaTexts ==
  {"", "#N/A", "#N/A N/A", "#NA", "-1.#IND", "-1.#QNAN", "-NaN", "-nan",
   "1.#IND", "1.#QNAN", "<NA>", "N/A", "NA", "NULL", "NaN", "None", "n/a",
   "nan", "null"}

Digits == {"0", "1", "2", "3", "4", "5", "6", "7", "8", "9"}
IsIntText(s) == Len(s) > 0 /\ \A k \in 1..Len(s) : SubSeq(s, k, k) \in Digits
IsFloatText(s) ==
  \E k \in 2..(Len(s) - 1) :
     /\ SubSeq(s, k, k) = "."
     /\ IsIntText(SubSeq(s, 1, k - 1))
     /\ IsIntText(SubSeq(s, k + 1, Len(s)))
IsNumText(s) == IsIntText(s) \/ IsFloatText(s)

\* read_csv's type inference for one column, from the texts of its cells.
ColumnType(texts) ==
  LET present == texts \ NaTexts
  IN IF present = {} THEN "float"
     ELSE IF \A s \in present : IsNumText(s)
          THEN IF texts = present /\ \A s \in present : IsIntText(s)
               THEN "int" ELSE "float"
     ELSE IF texts = present /\ present \subseteq {"True", "False"} THEN "bool"
     ELSE "object"

\* read_csv, one cell of a column of the inferred type.
ParseCell(type, s) ==
  IF s \in NaTexts THEN NaN
  ELSE IF type = "int" THEN Int(s)
  ELSE IF type = "float" THEN Float(IF IsIntText(s) THEN s \o ".0" ELSE s)
  ELSE IF type = "bool" THEN [t |-> "bool", v |-> s]
  ELSE Str(s)

\* pd.read_csv on the rows of a file.
read_csv(rows) ==
  LET texts(c) == {rows[k][c] : k \in 1..Len(rows)}
  IN [k \in 1..Len(rows) |->
        [c \in DOMAIN rows[k] |-> ParseCell(ColumnType(texts(c)), rows[k][c])]]

\* The file: absent, or the header and rows last written to it.
Absent == [exists |-> FALSE, cols |-> {}, rows |-> <<>>]
CkptFile(df) == [exists |-> TRUE, cols |-> CkptCols, rows |-> to_csv(df)]
OsmFile(df) ==
  [exists |-> TRUE, cols |-> IF df = <<>> THEN {} ELSE OsmCols, rows |-> to_csv(df)]

\* ------------------------------------------------------------------ main.py
VARIABLES
  gdf,          \* the features the provider holds for the place
  tags,         \* the tags argument the caller gives to main
  other,        \* the memory of a second process running main on the same file
  file,         \* output_file on disk
  run,          \* number of runs of main started so far
  pc,           \* position of the current run in main
  checker,      \* main's checker argument
  apiKey,       \* config.GOOGLE_API_KEY as imported by this run
  df_osm,       \* the table returned by extract_osm_businesses
  df_done,      \* the in-memory results frame
  done_names,   \* names loaded from the checkpoint
  i,            \* index of the row the loop is at
  entry,        \* the outcome built for row i, not yet appended
  calls,        \* lookups issued by this run: row, name, seconds slept so far,
                \* what came back
  sleeps,       \* seconds this run has spent in time.sleep
  fileAtStart,  \* the file as this run found it
  prev          \* what is remembered of the last run that ended

vars == <<gdf, tags, other, file, run, pc, checker, apiKey, df_osm, df_done, done_names, i,
          entry, calls, sleeps, fileAtStart, prev>>

\* The features of the model: names and websites as OSM carries them.
RawNames == {Str("Cafe"), Str("Bar")}
RawWebsites == {NaN, Str("example.com")}
FeaturesNamed(names) ==
  {[name |-> n, website |-> w, amenity |-> Str("cafe"),
    lat |-> Float("55.679"), lon |-> Float("12.584")] :
     n \in names, w \in RawWebsites}
Features == FeaturesNamed(RawNames)

\* Names that do not come back from the CSV as the text that was written: the
\* empty name, a name made of digits, a name pandas reads as missing.
OddNames == {Str(""), Str("108"), Str("NA")}

SeqsUpTo(S, n) == UNION {[1..k -> S] : k \in 0..n}

NoEntry == [osm_name |-> None]
NoRun == [table |-> <<>>, fresh |-> FALSE]
\* The second process before it is started, and after it has returned: its
\* table, frame, loaded names, row index, pending outcome, whether that outcome
\* came from a lookup, the number of rows it loaded, and the names it has
\* looked up and recorded.
NoProcess ==
  [pc |-> "none", table |-> <<>>, df_done |-> <<>>, done_names |-> {}, i |-> 1,
   entry |-> NoEntry, asked |-> FALSE, loaded |-> 0, looked |-> {}]
ProcessDone ==
  [pc |-> "done", table |-> <<>>, df_done |-> <<>>, done_names |-> {}, i |-> 1,
   entry |-> NoEntry, asked |-> FALSE, loaded |-> 0, looked |-> {}]

Terminal == {"idle", "returned", "config_error", "raised", "killed"}

\* Before the first run: no file, nothing in memory.
InitRest ==
  /\ file = Absent
  /\ run = 0
  /\ pc = "idle"
  /\ checker = FALSE
  /\ apiKey = GOOGLE_API_KEY_PLACEHOLDER
  /\ df_osm = <<>>
  /\ df_done = <<>>
  /\ done_names = {}
  /\ i = 1
  /\ entry = NoEntry
  /\ calls = <<>>
  /\ sleeps = 0
  /\ fileAtStart = Absent
  /\ prev = NoRun
  /\ other = NoProcess

Init == gdf \in SeqsUpTo(Features, MaxFeatures) /\ tags = None /\ InitRest


\* Mutant: only an empty key is refused.
KeyIsPlaceholder_EmptyOnly(key) == key = ""

\* main, line 62: the key is still the placeholder.
KeyIsPlaceholder(key) == key = GOOGLE_API_KEY_PLACEHOLDER

\* The process ends in state `end`: its memory is gone. What is remembered of
\* the run is its table, and whether it was a checker run with a usable key that
\* found no file and returned.
Exit(end) ==
  /\ pc' = end
  /\ prev' = [table |-> df_osm,
              fresh |-> /\ checker /\ ~KeyIsPlaceholder(apiKey)
                        /\ ~fileAtStart.exists /\ end = "returned"]
  /\ df_osm' = <<>>
  /\ df_done' = <<>>
  /\ done_names' = {}
  /\ i' = 1
  /\ entry' = NoEntry
  /\ calls' = <<>>
  /\ sleeps' = 0
  /\ UNCHANGED <<gdf, tags, other, run, checker, apiKey, fileAtStart>>

\* main, lines 25-26: the tags in force, DEFAULT_TAGS when none are given.
TagsInForce(given) == IF given = None THEN DEFAULT_TAGS ELSE given

\* main, line 35: the tags handed to extract_osm_businesses.
TagsPassed(given) == DEFAULT_TAGS

\* main, lines 22-36: a run starts and extracts the table.
Start(chk, key, providerRaises) ==
  /\ pc \in Terminal
  /\ run < MaxRuns
  /\ run' = run + 1
  /\ checker' = chk
  /\ apiKey' = key
  /\ df_osm' = extract_osm_businesses(gdf, TagsPassed(tags), providerRaises)
  /\ df_done' = <<>>
  /\ done_names' = {}
  /\ i' = 1
  /\ entry' = NoEntry
  /\ calls' = <<>>
  /\ sleeps' = 0
  /\ fileAtStart' = file
  /\ pc' = IF chk THEN "check_key" ELSE "export"
  /\ UNCHANGED <<gdf, tags, other, file, prev>>

\* main, lines 38-53: export mode writes the table and returns it.
Export ==
  /\ pc = "export"
  /\ file' = OsmFile(df_osm)
  /\ Exit("returned")

\* main, lines 59-69: the placeholder key ends the run with None.
CheckKey ==
  /\ pc = "check_key"
  /\ IF KeyIsPlaceholder(apiKey)
     THEN Exit("config_error")
     ELSE /\ pc' = "load"
          /\ UNCHANGED <<gdf, tags, other, run, checker, apiKey, df_osm, df_done, done_names,
                         i, entry, calls, sleeps, fileAtStart, prev>>
  /\ UNCHANGED file

\* set(df_done["osm_name"])
NameSet(df) == {df[k].osm_name : k \in 1..Len(df)}

\* main, lines 71-78: load the checkpoint when the file exists. Reading a file
\* without an osm_name column raises out of main.
Load ==
  /\ pc = "load"
  /\ IF file.exists /\ "osm_name" \notin file.cols
     THEN Exit("raised")
     ELSE /\ df_done' = IF file.exists THEN read_csv(file.rows) ELSE <<>>
          /\ done_names' = NameSet(df_done')
          /\ pc' = "loop"
          /\ UNCHANGED <<gdf, tags, other, run, checker, apiKey, df_osm, i, entry, calls,
                         sleeps, fileAtStart, prev>>
  /\ UNCHANGED file

\* Mutant: the test reads a column the table does not have.
HasOsmWebsite_WrongColumn(row) ==
  notna(Get(row, "url")) /\ row.website \notin {Str(""), None}

\* main, line 93: the row already carries a website.
HasOsmWebsite(row) ==
  notna(Get(row, "website")) /\ row.website \notin {Str(""), None}

\* main, lines 95-103: the outcome of a row that is not looked up.
SkipEntry(row) ==
  [osm_name |-> row.name, lat |-> row.lat, lon |-> row.lon,
   google_name |-> None, website |-> row.website,
   status |-> Str("HAS_OSM_WEBSITE"), not_found |-> Bool(FALSE)]

\* Mutant: not_found copies found instead of negating it.
LookupEntry_NotInverted(row, google_data) ==
  [osm_name |-> row.name, lat |-> row.lat, lon |-> row.lon,
   google_name |-> google_data.google_name, website |-> google_data.website,
   status |-> google_data.status, not_found |-> Bool(google_data.found)]

\* main, lines 115-123: the outcome built from the lookup's dictionary.
LookupEntry(row, google_data) ==
  [osm_name |-> row.name, lat |-> row.lat, lon |-> row.lon,
   google_name |-> google_data.google_name, website |-> google_data.website,
   status |-> google_data.status, not_found |-> Bool(~google_data.found)]

\* main, lines 132-142: the outcome recorded when the lookup raised.
ErrorEntry(row) ==
  [osm_name |-> row.name, lat |-> row.lat, lon |-> row.lon,
   google_name |-> None, website |-> None,
   status |-> Str("API_ERROR"), not_found |-> Bool(TRUE)]

\* main, lines 106-142: try the lookup, except Exception.
QueriedEntry(row, resp) ==
  LET google_data == check_google_business(resp)
  IN IF google_data.exc THEN ErrorEntry(row) ELSE LookupEntry(row, google_data)

\* main, line 86: the row's name is among the names loaded at start.
AlreadyDone(row, names) == row.name \in names

InLoop == pc = "loop" /\ i <= Len(df_osm)

\* main, lines 84-87: a row whose name was loaded is passed over.
SkipDone ==
  /\ InLoop
  /\ AlreadyDone(df_osm[i], done_names)
  /\ i' = i + 1
  /\ UNCHANGED <<gdf, tags, other, file, run, pc, checker, apiKey, df_osm, df_done,
                 done_names, entry, calls, sleeps, fileAtStart, prev>>

\* main, lines 92-103: a row with a website gets its outcome without a lookup.
HasWebsite ==
  /\ InLoop
  /\ ~AlreadyDone(df_osm[i], done_names)
  /\ HasOsmWebsite(df_osm[i])
  /\ entry' = SkipEntry(df_osm[i])
  /\ pc' = "save"
  /\ UNCHANGED <<gdf, tags, other, file, run, checker, apiKey, df_osm, df_done, done_names,
                 i, calls, sleeps, fileAtStart, prev>>

\* Mutant: no delay after a lookup.
RateLimit_None(slept) == slept

\* main, line 145: time.sleep(1); the seconds slept so far by this run.
RateLimit(slept) == slept + 1

\* main, lines 104-145: the lookup, its outcome, and the delay after it.
Lookup(resp) ==
  /\ InLoop
  /\ ~AlreadyDone(df_osm[i], done_names)
  /\ ~HasOsmWebsite(df_osm[i])
  /\ calls' = Append(calls, [i |-> i, name |-> df_osm[i].name, slept |-> sleeps,
                              failed |-> resp.kind = "raise" \/ resp.error_message,
                              results |-> resp.results])
  /\ entry' = QueriedEntry(df_osm[i], resp)
  /\ sleeps' = RateLimit(sleeps)
  /\ pc' = "save"
  /\ UNCHANGED <<gdf, tags, other, file, run, checker, apiKey, df_osm, df_done, done_names,
                 i, fileAtStart, prev>>

\* pd.concat([df_done, pd.DataFrame([entry])], ignore_index=True)
Concat(df, e) == Append(df, e)

\* Mutant: the file is rewritten only every second outcome.
Persist_Batched(df) == CkptFile(SubSeq(df, 1, Len(df) - (Len(df) % 2)))

\* df_done.to_csv(output_file, index=False)
Persist(df) == CkptFile(df)

\* main, lines 147-151: append the outcome and rewrite the file.
Save ==
  /\ pc = "save"
  /\ df_done' = Concat(df_done, entry)
  /\ file' = Persist(df_done')
  /\ entry' = NoEntry
  /\ i' = i + 1
  /\ pc' = "loop"
  /\ UNCHANGED <<gdf, tags, other, run, checker, apiKey, df_osm, done_names, calls, sleeps,
                 fileAtStart, prev>>

\* main, lines 153-157: the loop is over, main returns df_done.
Finish ==
  /\ pc = "loop"
  /\ i > Len(df_osm)
  /\ Exit("returned")
  /\ UNCHANGED file

\* The process is interrupted (killed, power loss) between two steps.
Kill ==
  /\ pc \notin Terminal
  /\ Exit("killed")
  /\ UNCHANGED file

Next ==
  \/ \E chk \in BOOLEAN, key \in ApiKeys, providerRaises \in BOOLEAN :
        Start(chk, key, providerRaises)
  \/ Export
  \/ CheckKey
  \/ Load
  \/ SkipDone
  \/ HasWebsite
  \/ \E resp \in ResponsesFor(apiKey) : Lookup(resp)
  \/ Save
  \/ Finish
  \/ Kill

Spec == Init /\ [][Next]_vars

\* ------------------------------------------- a second process on the same file
\* main, lines 71-78, in a second process started in checker mode with a valid
\* key for the same place while the first is in the loop of its last run: it
\* has the same table and loads the file as it is now.
OtherStart ==
  /\ other.pc = "none"
  /\ run = MaxRuns
  /\ pc \in {"loop", "save"}
  /\ ~(file.exists /\ "osm_name" \notin file.cols)
  /\ LET loaded == IF file.exists THEN read_csv(file.rows) ELSE <<>>
     IN other' = [pc |-> "loop", table |-> df_osm, df_done |-> loaded,
                  done_names |-> NameSet(loaded), i |-> 1, entry |-> NoEntry,
                  asked |-> FALSE, loaded |-> Len(loaded), looked |-> {}]
  /\ UNCHANGED <<gdf, tags, file, run, pc, checker, apiKey, df_osm, df_done,
                 done_names, i, entry, calls, sleeps, fileAtStart, prev>>

\* main, lines 84-145, in the second process: one row of the loop is passed
\* over, or gets its outcome with or without a lookup.
OtherStep(resp) ==
  /\ other.pc = "loop"
  /\ other.i <= Len(other.table)
  /\ LET row == other.table[other.i]
     IN other' =
          IF AlreadyDone(row, other.done_names)
          THEN [other EXCEPT !.i = @ + 1]
          ELSE IF HasOsmWebsite(row)
          THEN [other EXCEPT !.entry = SkipEntry(row), !.pc = "save"]
          ELSE [other EXCEPT !.entry = QueriedEntry(row, resp), !.pc = "save",
                             !.asked = TRUE]
  /\ UNCHANGED <<gdf, tags, file, run, pc, checker, apiKey, df_osm, df_done,
                 done_names, i, entry, calls, sleeps, fileAtStart, prev>>

\* main, lines 147-151, in the second process: it appends to its own frame and
\* rewrites the file from it.
OtherSave ==
  /\ other.pc = "save"
  /\ LET df == Concat(other.df_done, other.entry)
     IN /\ other' = [other EXCEPT
                        !.df_done = df, !.entry = NoEntry, !.i = @ + 1, !.pc = "loop",
                        !.asked = FALSE,
                        !.looked = IF other.asked THEN @ \cup {other.entry.osm_name}
                                   ELSE @]
        /\ file' = Persist(df)
  /\ UNCHANGED <<gdf, tags, run, pc, checker, apiKey, df_osm, df_done,
                 done_names, i, entry, calls, sleeps, fileAtStart, prev>>

\* main, lines 153-157, in the second process.
OtherFinish ==
  /\ other.pc = "loop"
  /\ other.i > Len(other.table)
  /\ other' = ProcessDone
  /\ UNCHANGED <<gdf, tags, file, run, pc, checker, apiKey, df_osm, df_done,
                 done_names, i, entry, calls, sleeps, fileAtStart, prev>>

NextTwo ==
  \/ Next
  \/ OtherStart
  \/ \E resp \in Responses : OtherStep(resp)
  \/ OtherSave
  \/ OtherFinish

\* Tables of an ordinary name and a name pandas reads back as missing.
InitTwo ==
  /\ gdf \in SeqsUpTo(FeaturesNamed({Str("Cafe"), Str("NA")}), MaxFeatures)
  /\ tags = None
  /\ InitRest

SpecTwo == InitTwo /\ [][NextTwo]_vars

\* The same program on tables that also carry the odd names.
InitOddNames ==
  /\ gdf \in SeqsUpTo(FeaturesNamed({Str("Cafe")} \cup OddNames), MaxFeatures)
  /\ tags = None
  /\ InitRest

SpecOddNames == InitOddNames /\ [][Next]_vars

\* ================================================================ properties
\* A checker run with a usable key is in progress.
CheckerRun == pc \notin Terminal /\ checker /\ apiKey # GOOGLE_API_KEY_PLACEHOLDER

\* The loop has gone through the whole table; main is about to return.
LoopOver == pc = "loop" /\ i > Len(df_osm)

\* Rows the run found in the checkpoint when it started.
LoadedCount ==
  IF fileAtStart.exists /\ "osm_name" \in fileAtStart.cols
  THEN Len(fileAtStart.rows) ELSE 0

\* Outcomes this run has appended to df_done, in order.
Appended == SubSeq(df_done, LoadedCount + 1, Len(df_done))

\* Rows of the table that were not among the loaded names, in table order.
PendingRows(upto) ==
  {k \in 1..upto : k <= Len(df_osm) /\ df_osm[k].name \notin done_names}

\* Position among the appended outcomes of the outcome of pending row k.
Rank(k) == Cardinality(PendingRows(k))

\* The row an appended outcome belongs to.
RowOfAppended(j) == CHOOSE k \in PendingRows(Len(df_osm)) : Rank(k) = j

\* What the lookups of row k got back in this run.
RespOf(k) == {calls[c] : c \in {d \in 1..Len(calls) : calls[d].i = k}}

TableNames(table) == {table[k].name : k \in 1..Len(table)}

\* C1 (as claimed): after a complete checker run from an absent file and a
\* second complete checker run on the same table, the file holds exactly one
\* row per unique record name and the second run looked up no name the first
\* run had checkpointed.
C1_IdempotentResume ==
  ( /\ CheckerRun /\ LoopOver
    /\ prev.fresh
    /\ prev.table = df_osm )
  => /\ \A n \in TableNames(df_osm) :
          Cardinality({k \in 1..Len(file.rows) : file.rows[k].osm_name = n.v}) = 1
     /\ Len(file.rows) = Cardinality(TableNames(df_osm))
     /\ \A c \in 1..Len(calls) :
          calls[c].name.v \notin {fileAtStart.rows[k].osm_name : k \in 1..Len(fileAtStart.rows)}

\* C2: a pending row with a non-null, non-empty website is never looked up, and
\* its outcome is HAS_OSM_WEBSITE with the row's website, no google_name and
\* not_found false.
C2_ShortCircuit ==
  CheckerRun =>
    /\ \A c \in 1..Len(calls) :
         LET w == df_osm[calls[c].i].website IN w = None \/ w = Str("")
    /\ \A j \in 1..Len(Appended) :
         LET row == df_osm[RowOfAppended(j)]
         IN (row.website # None /\ row.website # Str("")) =>
              /\ Appended[j].status = Str("HAS_OSM_WEBSITE")
              /\ Appended[j].website = row.website
              /\ Appended[j].google_name = None
              /\ Appended[j].not_found = Bool(FALSE)
              /\ Appended[j].osm_name = row.name

C2_Witness ==
  /\ CheckerRun
  /\ Len(Appended) >= 1
  /\ df_osm[RowOfAppended(1)].website = Str("http://example.com")
  /\ Appended[1].status = Str("HAS_OSM_WEBSITE")

\* The lookup failed: the call or the decoding raised, or the payload carries
\* an error indicator.
Failed(resp) == resp.failed

\* The outcome the design prescribes for a row that was looked up.
PrescribedOutcome(row, resp) ==
  IF Failed(resp)
  THEN [osm_name |-> row.name, lat |-> row.lat, lon |-> row.lon,
        google_name |-> None, website |-> None, status |-> Str("API_ERROR"),
        not_found |-> Bool(TRUE)]
  ELSE IF Len(resp.results) = 0
  THEN [osm_name |-> row.name, lat |-> row.lat, lon |-> row.lon,
        google_name |-> None, website |-> None, status |-> None,
        not_found |-> Bool(TRUE)]
  ELSE LET top == resp.results[1]
           field(f) == IF f \in DOMAIN top THEN top[f] ELSE None
       IN [osm_name |-> row.name, lat |-> row.lat, lon |-> row.lon,
           google_name |-> field("name"), website |-> field("website"),
           status |-> field("business_status"), not_found |-> Bool(FALSE)]

\* C3: a failed lookup leaves the run going; its outcome is API_ERROR with null
\* google_name and website and not_found true; every later pending row is
\* still processed, each with the outcome its own response prescribes.
C3_ErrorContainment ==
  CheckerRun =>
    /\ \A c \in 1..Len(calls) :
         LET k == calls[c].i
             want == PrescribedOutcome(df_osm[k], calls[c])
         IN IF k < i
            THEN Rank(k) <= Len(Appended) /\ Appended[Rank(k)] = want
            ELSE k = i /\ pc = "save" /\ entry = want
    /\ (LoopOver => Len(Appended) = Cardinality(PendingRows(Len(df_osm))))

C3_Witness ==
  /\ CheckerRun /\ LoopOver
  /\ Len(Appended) = 2 /\ Len(calls) = 2
  /\ Failed(calls[1])
  /\ Appended[1].status = Str("API_ERROR")
  /\ Appended[2].status = Str("OPERATIONAL")

\* C4: with the placeholder key a checker run issues no lookup and leaves the
\* file exactly as it found it.
C4_FatalPrecondition ==
  (run >= 1 /\ checker /\ apiKey = GOOGLE_API_KEY_PLACEHOLDER) =>
    /\ calls = <<>>
    /\ file = fileAtStart
    /\ pc \in {"check_key", "config_error", "killed"}
    /\ df_done = <<>>

C4_Witness ==
  /\ checker /\ apiKey = GOOGLE_API_KEY_PLACEHOLDER
  /\ pc = "config_error"
  /\ prev.table # <<>>
  /\ "osm_name" \in fileAtStart.cols
  /\ file = fileAtStart

ExtractFeatures ==
  {[name |-> n, website |-> w, amenity |-> Str("cafe"),
    lat |-> Float("55.679"), lon |-> Float("12.584")] :
     n \in {NaN, Str(""), Str("nan"), Str("Cafe")},
     w \in {NaN, Str(""), Str("example.com"), Str("https://example.com"),
            Str("http://example.com")}}

InitExtract == gdf \in SeqsUpTo(ExtractFeatures, MaxFeatures) /\ tags = None /\ InitRest

\* One call of extract_osm_businesses.
Extract(providerRaises) ==
  /\ pc = "idle"
  /\ df_osm' = extract_osm_businesses(gdf, tags, providerRaises)
  /\ pc' = "extracted"
  /\ UNCHANGED <<gdf, tags, other, file, run, checker, apiKey, df_done, done_names, i,
                 entry, calls, sleeps, fileAtStart, prev>>

NextExtract == \E providerRaises \in BOOLEAN : Extract(providerRaises)

SpecExtract == InitExtract /\ [][NextExtract]_vars

\* C6 (as claimed): every row of the extracted table has a non-null, non-empty
\* name, and a feature whose raw name is null or empty is not in the table.
C6_NameFilter ==
  pc = "extracted" =>
    /\ \A k \in 1..Len(df_osm) : df_osm[k].name \notin {None, NaN, Str("")}
    /\ Len(df_osm) <=
         Cardinality({k \in 1..Len(gdf) : gdf[k]["name"] \notin {NaN, Str("")}})

\* The type each checkpoint column is written from.
WrittenType(c) ==
  IF c \in {"lat", "lon"} THEN "float"
  ELSE IF c = "not_found" THEN "bool"
  ELSE "str"

\* C7 (as claimed): the rows a run loads carry, in all seven columns, the values
\* that were written; they keep their position and text through later appends;
\* and the loaded name set is the set of names written.
C7_RoundTripAppendOnly ==
  (CheckerRun /\ pc \in {"loop", "save"} /\ LoadedCount > 0) =>
    /\ \A k \in 1..LoadedCount :
         /\ \A c \in CkptCols :
              LET text == fileAtStart.rows[k][c]
              IN IF text = "" THEN ~notna(df_done[k][c])
                 ELSE df_done[k][c] = [t |-> WrittenType(c), v |-> text]
         /\ file.rows[k] = fileAtStart.rows[k]
    /\ {n \in done_names : notna(n)} =
         {Str(fileAtStart.rows[k].osm_name) :
            k \in {m \in 1..LoadedCount : fileAtStart.rows[m].osm_name # ""}}

\* A lookup of row k returned at least one match.
MatchObtained(k) == \E resp \in RespOf(k) : ~Failed(resp) /\ Len(resp.results) > 0

\* C8 (as claimed): in every outcome written, not_found is true exactly when no
\* match was obtained for the row.
C8_NotFoundIffNoMatch ==
  CheckerRun =>
    \A j \in 1..Len(Appended) :
       (Appended[j].not_found = Bool(TRUE)) <=> ~MatchObtained(RowOfAppended(j))

\* C8 (amended): not_found is true exactly when the row was looked up and the
\* lookup gave no match (zero results or a failure); the outcome of a row that
\* was not looked up because it has a website has not_found false.
C8_NotFoundIffQueriedNoMatch ==
  CheckerRun =>
    \A j \in 1..Len(Appended) :
       LET k == RowOfAppended(j)
       IN /\ Appended[j].not_found \in {Bool(TRUE), Bool(FALSE)}
          /\ (Appended[j].not_found = Bool(TRUE)) <=>
               (RespOf(k) # {} /\ ~MatchObtained(k))

C8_Witness ==
  /\ CheckerRun
  /\ Len(Appended) = 2
  /\ RespOf(RowOfAppended(1)) = {}
  /\ Appended[1].not_found = Bool(FALSE)
  /\ RespOf(RowOfAppended(2)) # {}
  /\ ~MatchObtained(RowOfAppended(2))
  /\ Appended[2].not_found = Bool(TRUE)

\* C9 (as claimed): no exception leaves main; a run ends only by returning or
\* on the placeholder key.
C9_OnlyConfigAborts == pc # "raised"

\* A lookup of row k returned an empty result list.
ZeroMatches(k) == \E resp \in RespOf(k) : ~Failed(resp) /\ Len(resp.results) = 0

\* C10 (as claimed): a zero-match outcome has null google_name and website,
\* not_found true, and a status no FOUND outcome carries.
C10_DistinctSentinel ==
  CheckerRun =>
    \A j \in 1..Len(Appended) :
       ZeroMatches(RowOfAppended(j)) =>
         /\ Appended[j].google_name = None
         /\ Appended[j].website = None
         /\ Appended[j].not_found = Bool(TRUE)
         /\ \A m \in 1..Len(Appended) :
              MatchObtained(RowOfAppended(m)) => Appended[m].status # Appended[j].status

\* C11: when a lookup is issued, every earlier lookup of the run has been
\* followed by the fixed delay, and nothing else has been slept: no delay is
\* made for a row that was not looked up; the delay follows the last lookup too,
\* whatever its outcome.
C11_RateLimiting ==
  CheckerRun =>
    /\ \A c \in 1..Len(calls) : calls[c].slept = (c - 1) * API_DELAY
    /\ sleeps = Len(calls) * API_DELAY

C11_Witness ==
  /\ CheckerRun /\ pc = "save"
  /\ Len(Appended) = 1
  /\ Appended[1].status = Str("HAS_OSM_WEBSITE")
  /\ Len(calls) = 1
  /\ Failed(calls[1])
  /\ sleeps = API_DELAY

\* C12 (as claimed): in a checker run with the placeholder key the key is
\* checked before the provider is called: the run halts with no table fetched
\* or normalised.
C12_KeyCheckBeforeFetch ==
  (run >= 1 /\ checker /\ KeyIsPlaceholder(apiKey)) =>
    /\ df_osm = <<>>
    /\ (pc = "config_error" => prev.table = <<>>)

\* C13 (as claimed): with an empty key a checker run issues no lookup and
\* writes no checkpoint row: it halts at the key check.
C13_MissingKeyHalts ==
  (run >= 1 /\ checker /\ apiKey = EmptyKey) =>
    /\ calls = <<>>
    /\ file = fileAtStart
    /\ pc \in {"check_key", "config_error", "killed"}

\* ------------------------------------------- the normalisation of the tags
\* Features carrying address tags: a tag the feature does not carry is NaN in
\* the frame. One street is the empty text.
AddressFeatures ==
  {("name" :> Str("Cafe")) @@ ("addr:housenumber" :> hn) @@ ("addr:street" :> st) @@
   ("addr:city" :> ci) @@ ("addr:country" :> co) @@ ("addr:full" :> fu) @@
   ("address" :> ad) :
     hn \in {NaN, Str("5")}, st \in {NaN, Str("Main St"), Str("")},
     ci \in {NaN, Str("Kbh")}, co \in {NaN, Str("DK")},
     fu \in {NaN, Str("Main St 5, Kbh")}, ad \in {NaN, Str("Old Rd 1")}}

\* Features carrying classification tags, every combination of the six.
TypeFeatures ==
  {[name |-> Str("Bar"), shop |-> sh, amenity |-> am, tourism |-> to, office |-> of,
    craft |-> cr, leisure |-> le] :
     sh \in {NaN, Str("bakery")}, am \in {NaN, Str("fast_food"), Str("ATM")},
     to \in {NaN, Str("guest_house")}, of \in {NaN, Str("it")},
     cr \in {NaN, Str("shoemaker")}, le \in {NaN, Str("fitness_centre")}}

TaggedFeatures == AddressFeatures \cup TypeFeatures

\* The columns of the data dictionary that are derived from the tags.
NormalizedRow(f) ==
  [business_type |-> _determine_comprehensive_business_type(f),
   primary_tag |-> _get_primary_osm_tag(f),
   address |-> _build_comprehensive_address(f)]

InitNormalize == gdf \in SeqsUpTo(TaggedFeatures, MaxTagged) /\ tags = None /\ InitRest

\* The derived columns are computed for the frame.
Normalize ==
  /\ pc = "idle"
  /\ df_osm' = [k \in 1..Len(gdf) |-> NormalizedRow(gdf[k])]
  /\ pc' = "normalized"
  /\ UNCHANGED <<gdf, tags, other, file, run, checker, apiKey, df_done, done_names, i,
                 entry, calls, sleeps, fileAtStart, prev>>

NextNormalize == Normalize

SpecNormalize == InitNormalize /\ [][NextNormalize]_vars

\* The structured address tags a feature carries, in the fixed order.
PresentComponents(f) ==
  SelectSeq(address_components, LAMBDA c : c \in DOMAIN f /\ f[c] \notin {NaN, None})

\* The texts of a sequence of tag keys of f, joined with ", ".
RECURSIVE JoinedTags(_, _)
JoinedTags(f, keys) ==
  IF Len(keys) = 1 THEN f[keys[1]].v
  ELSE JoinedTags(f, SubSeq(keys, 1, Len(keys) - 1)) \o ", " \o f[keys[Len(keys)]].v

Named == SelectSeq(gdf, LAMBDA f : f["name"] \notin {NaN, None})

HasScheme(text) ==
  \/ Len(text) >= 7 /\ SubSeq(text, 1, 7) = "http://"
  \/ Len(text) >= 8 /\ SubSeq(text, 1, 8) = "https://"

\* C15 (as claimed): in the table a non-null website without a scheme is stored
\* with "http://" in front, one with "http://" or "https://" is stored as it
\* is, a null one stays null, and normalising the table again changes nothing.
C15_SchemeInjection ==
  (pc = "extracted" /\ Len(df_osm) = Len(Named)) =>
    \A k \in 1..Len(df_osm) :
       LET w == Named[k]["website"]
           stored == df_osm[k].website
       IN /\ IF w = NaN THEN stored = None
             ELSE IF HasScheme(w.v) THEN stored = w
             ELSE stored = Str("http://" \o w.v)
          /\ _clean_comprehensive_dataframe(df_osm[k]).website = stored

\* C15 (amended): as claimed for a website that is not empty; an empty website
\* is stored as null.
C15_SchemeInjectionNonEmpty ==
  (pc = "extracted" /\ Len(df_osm) = Len(Named)) =>
    \A k \in 1..Len(df_osm) :
       LET w == Named[k]["website"]
           stored == df_osm[k].website
       IN /\ IF w = NaN \/ w = Str("") THEN stored = None
             ELSE IF HasScheme(w.v) THEN stored = w
             ELSE stored = Str("http://" \o w.v)
          /\ _clean_comprehensive_dataframe(df_osm[k]).website = stored

C15_Witness ==
  /\ pc = "extracted" /\ Len(df_osm) = 2 /\ Len(gdf) = 2
  /\ gdf[1]["website"] = Str("example.com")
  /\ df_osm[1].website = Str("http://example.com")
  /\ gdf[2]["website"] = Str("https://example.com")
  /\ df_osm[2].website = Str("https://example.com")

\* The provider holds named features and the table of the run (the current
\* one, or the one that just ended) is empty: the extraction raised inside.
ExtractionFailed ==
  /\ Named # <<>>
  /\ \/ pc \notin Terminal /\ df_osm = <<>>
     \/ pc \in Terminal \ {"idle"} /\ prev.table = <<>>

\* C16 (as claimed): when the extraction raises inside, main gets an empty
\* table and goes through it without an error, in export and in checker mode.
C16_DegradeToEmpty ==
  ExtractionFailed =>
    /\ pc # "raised"
    /\ calls = <<>>

\* The classification tags in their fixed order, with the category each gives.
TagOrder == <<"shop", "amenity", "tourism", "office", "craft", "leisure">>
CategoryOf ==
  [shop |-> "Shop", amenity |-> "Service", tourism |-> "Tourism",
   office |-> "Office", craft |-> "Craft", leisure |-> "Recreation"]

\* The title-cased form, underscores as spaces, of the tag values of the model.
TitleCased ==
  [v \in {"bakery", "fast_food", "ATM", "guest_house", "it", "shoemaker",
          "fitness_centre"} |->
     CASE v = "bakery" -> "Bakery"
       [] v = "fast_food" -> "Fast Food"
       [] v = "ATM" -> "Atm"
       [] v = "guest_house" -> "Guest House"
       [] v = "it" -> "It"
       [] v = "shoemaker" -> "Shoemaker"
       [] v = "fitness_centre" -> "Fitness Centre"]

\* C17: business_type comes from the first tag present in the fixed order, as
\* "<Category>: <title-cased value>", and is "Unknown" without one; primary_tag
\* is the name of that tag, and "unknown" exactly when business_type is
\* "Unknown".
C17_TypeClassification ==
  pc = "normalized" =>
    \A k \in 1..Len(gdf) :
       LET f == gdf[k]
           present == {j \in 1..Len(TagOrder) :
                         TagOrder[j] \in DOMAIN f /\ f[TagOrder[j]] \notin {NaN, None}}
           row == df_osm[k]
       IN /\ IF present = {}
             THEN row.business_type = Str("Unknown") /\ row.primary_tag = Str("unknown")
             ELSE LET first == CHOOSE j \in present : \A m \in present : j <= m
                      tag == TagOrder[first]
                  IN /\ row.primary_tag = Str(tag)
                     /\ row.business_type =
                          Str(CategoryOf[tag] \o ": " \o TitleCased[f[tag].v])
          /\ (row.primary_tag = Str("unknown")) <=> (row.business_type = Str("Unknown"))

C17_Witness ==
  /\ pc = "normalized" /\ Len(gdf) = 1
  /\ "shop" \in DOMAIN gdf[1]
  /\ gdf[1]["shop"] = NaN
  /\ gdf[1]["amenity"] = Str("fast_food")
  /\ gdf[1]["leisure"] = Str("fitness_centre")
  /\ df_osm[1].business_type = Str("Service: Fast Food")
  /\ df_osm[1].primary_tag = Str("amenity")

\* ------------------------------------------------ main called with tags
\* A caller's own filter, and features of which it accepts only some.
CustomTags == [amenity |-> Only({"restaurant", "cafe"})]
TagArgs == {None, CustomTags}
TagFeatures ==
  {[name |-> Str("Cafe"), website |-> w, amenity |-> Str("cafe"),
    lat |-> Float("55.679"), lon |-> Float("12.584")] : w \in RawWebsites}
  \cup
  {[name |-> Str("Bar"), website |-> w, shop |-> Str("bakery"),
    lat |-> Float("55.679"), lon |-> Float("12.584")] : w \in RawWebsites}
  \cup
  {[name |-> Str("Spa"), website |-> w, leisure |-> Str("spa"),
    lat |-> Float("55.679"), lon |-> Float("12.584")] : w \in RawWebsites}

InitTags == gdf \in SeqsUpTo(TagFeatures, MaxFeatures) /\ tags \in TagArgs /\ InitRest

SpecTags == InitTags /\ [][Next]_vars

\* C18 (as claimed): the table of a run is the extraction for the caller's
\* tags when tags are given, and for DEFAULT_TAGS when they are not.
C18_TagsArgument ==
  (pc \notin Terminal /\ df_osm # <<>>) =>
    df_osm = extract_osm_businesses(gdf, IF tags = None THEN DEFAULT_TAGS ELSE tags, FALSE)

\* The run that just ended was a checker run with a usable key.
CheckerRunEnded ==
  /\ pc \in {"returned", "raised"}
  /\ checker
  /\ apiKey \notin {GOOGLE_API_KEY_PLACEHOLDER, EmptyKey}

\* Every record of the table of the run that just ended has a row in the file
\* under its name.
AllRecorded ==
  \A k \in 1..Len(prev.table) :
     \E r \in 1..Len(file.rows) :
        /\ "osm_name" \in DOMAIN file.rows[r]
        /\ file.rows[r].osm_name = prev.table[k].name.v

\* C19 (as claimed): a checker run with a valid key that is not interrupted
\* ends by returning, and then every record of its table has an outcome in
\* the file under its name, whatever the file held before.
C19_Completion ==
  CheckerRunEnded => (pc = "returned" /\ AllRecorded)

\* An outcome this run appended and wrote is in the file under no row.
LostOutcome ==
  \E j \in 1..Len(Appended) :
     \A r \in 1..Len(file.rows) : file.rows[r].osm_name # CellText(Appended[j].osm_name)

\* A name this run has looked up and recorded was looked up and recorded by
\* another process too: the second process, or the one that wrote the file this
\* run started from.
RecordedByBoth ==
  \E c \in 1..Len(calls) :
     /\ calls[c].i < i
     /\ \/ calls[c].name \in other.looked
        \/ /\ "osm_name" \in fileAtStart.cols
           /\ \E r \in 1..Len(fileAtStart.rows) :
                 /\ fileAtStart.rows[r].osm_name = CellText(calls[c].name)
                 /\ fileAtStart.rows[r].status # "HAS_OSM_WEBSITE"

\* C20 (as claimed): as long as no second process has been started on the
\* file, no outcome a run has written is missing from the file and no name is
\* looked up and recorded by two processes.
C20_SingleWriterSafe ==
  (CheckerRun /\ other.pc = "none") => (~LostOutcome /\ ~RecordedByBoth)

\* With the second process running: an outcome of the first for an ordinary
\* name is gone from the file; an ordinary name is recorded by both.
LostUpdate ==
  /\ CheckerRun /\ other.pc # "none"
  /\ \E j \in 1..Len(Appended) :
       /\ Appended[j].osm_name = Str("Cafe")
       /\ \A r \in 1..Len(file.rows) : file.rows[r].osm_name # "Cafe"
DoubleLookup ==
  /\ CheckerRun /\ Str("Cafe") \in other.looked
  /\ fileAtStart = Absent
  /\ \E c \in 1..Len(calls) : calls[c].i < i /\ calls[c].name = Str("Cafe")

\* Rows of the file a run started from that hold a failed or no-match outcome.
UnmatchedAtStart ==
  IF "osm_name" \in fileAtStart.cols
  THEN {r \in 1..Len(fileAtStart.rows) : fileAtStart.rows[r].not_found = "True"}
  ELSE {}

\* The run has looked up the name written in row r of the file it started from.
LookedUpAgain(r) ==
  \E c \in 1..Len(calls) : CellText(calls[c].name) = fileAtStart.rows[r].osm_name

\* C21 (as claimed): an API_ERROR or no-match outcome found in the file by a
\* later run stays in the file as it was written, and the run issues no lookup
\* for its name.
C21_NeverRetried ==
  \A r \in UnmatchedAtStart :
     /\ ~LookedUpAgain(r)
     /\ r <= Len(file.rows)
     /\ file.rows[r] = fileAtStart.rows[r]

\* The same, for checker runs only.
NeverRetriedByChecker == checker => C21_NeverRetried

====
